---- MODULE Spec2Model ----
(***************************************************************************)
(* The 24/7 task scheduler of gemini-agentic-cli: the SQLite task store    *)
(* (src/daemon/task_queue.py), the dual-constraint rate limiter            *)
(* (src/daemon/rate_limiter.py) and the daemon loop (src/daemon/daemon.py).*)
(*                                                                         *)
(* Time is an integer clock counted in units of 1/Sec second, so that the  *)
(* minimum inter-request gap 60 / (rpm * 0.9) is a whole number of units.  *)
(***************************************************************************)
EXTENDS Integers, Sequences, FiniteSets, TLC

VARIABLES tasks, nextId, now, ticks, file, mem, pc, running, starts, row, disp, nclaims, faildelay, lcall, txn

vars == <<tasks, nextId, now, ticks, file, mem, pc, running, starts, row, disp, nclaims, faildelay, lcall, txn>>

(***************************************************************************)
(* Bounds of the model.                                                    *)
(***************************************************************************)
MaxTasks == 1
MaxTicks == 1
MaxStarts == 2
StoreTasks == 1
ClaimTasks == 3
ClaimTicks == 2
MaxConcurrent == 2
PoolTasks == 3
FrameTasks == 2
FrameTicks == 1
FrameAttempts == 2
PoolTicks == 2
ContainTasks == 3
BootTasks == 1
BatchSize == 2
BatchTasks == 3
AttemptCap == 5
StartTime == 100000

(***************************************************************************)
(* Program constants.                                                      *)
(***************************************************************************)
SafetyNum == 9
SafetyDen == 10
Sec == 2 * SafetyNum
MaxAttempts == 3
BackoffBase == 5
StuckTimeout == 300
CapacityCooldown == 60
MinRequeueDelay == 10
FallbackWait == 3600
NumAccounts == 2

Daemons == {1, 2}
Accounts == 1..NumAccounts
Slots == 1..(MaxConcurrent + 1)
Priorities == {10, 50}
DefaultPriority == 100
TickSteps == {(StuckTimeout + CapacityCooldown) * Sec}
ClaimTickSteps == {MinRequeueDelay * Sec}

Max(a, b) == IF a >= b THEN a ELSE b

RECURSIVE Pow2(_)
Pow2(n) == IF n <= 0 THEN 1 ELSE 2 * Pow2(n - 1)

(***************************************************************************)
(* Error texts are sequences of characters, so that the substring and      *)
(* lower-casing tests of the dispatch code are computed, not assumed.      *)
(***************************************************************************)
Msg429 == <<"H", "T", "T", "P", " ", "4", "2", "9">>
MsgExhausted == <<"R", "E", "S", "O", "U", "R", "C", "E", "_", "E", "X", "H", "A", "U", "S", "T", "E", "D">>
MsgTimeout == <<"T", "i", "m", "e", "o", "u", "t">>
MsgNoSpace == <<"N", "o", " ", "s", "p", "a", "c", "e", " ", "l", "e", "f", "t">>
ErrorTexts == {Msg429, MsgExhausted, MsgTimeout}

Needle429 == <<"4", "2", "9">>
NeedleExhausted == <<"e", "x", "h", "a", "u", "s", "t", "e", "d">>

UpperToLower == [c \in {"A", "B", "C", "D", "E", "F", "G", "H", "I", "J", "K", "L", "M", "N", "O", "P", "Q", "R", "S", "T", "U", "V", "W", "X", "Y", "Z"} |->
    CASE c = "A" -> "a" [] c = "B" -> "b" [] c = "C" -> "c" [] c = "D" -> "d"
      [] c = "E" -> "e" [] c = "F" -> "f" [] c = "G" -> "g" [] c = "H" -> "h"
      [] c = "I" -> "i" [] c = "J" -> "j" [] c = "K" -> "k" [] c = "L" -> "l"
      [] c = "M" -> "m" [] c = "N" -> "n" [] c = "O" -> "o" [] c = "P" -> "p"
      [] c = "Q" -> "q" [] c = "R" -> "r" [] c = "S" -> "s" [] c = "T" -> "t"
      [] c = "U" -> "u" [] c = "V" -> "v" [] c = "W" -> "w" [] c = "X" -> "x"
      [] c = "Y" -> "y" [] OTHER -> "z"]

Lower(s) == [i \in 1..Len(s) |-> IF s[i] \in DOMAIN UpperToLower THEN UpperToLower[s[i]] ELSE s[i]]

Contains(needle, hay) == \E i \in 0..(Len(hay) - Len(needle)) : SubSeq(hay, i + 1, i + Len(needle)) = needle

IsCapacityErrorCaseSensitive(msg) == Contains(Needle429, msg) \/ Contains(NeedleExhausted, msg)

IsCapacityError(msg) == Contains(Needle429, msg) \/ Contains(NeedleExhausted, Lower(msg))

(***************************************************************************)
(* Task store: the rows of the tasks table and the SQL statements.         *)
(* NULL columns are the empty tuple, a stored value v is <<v>>.            *)
(***************************************************************************)
NULL == <<>>
Some(v) == <<v>>

TaskStatus == {"PENDING", "PROCESSING", "COMPLETED", "FAILED", "DEAD_LETTER"}

NewRow(priority, model_pref, payload, created_at, execute_after) ==
    [priority |-> priority, model_pref |-> model_pref, payload |-> payload,
     status |-> "PENDING", result |-> NULL, created_at |-> created_at,
     execute_after |-> execute_after, attempts |-> 0, error_message |-> NULL]

InsertTaskRestamps(T, id, priority, model_pref, payload, t, execute_after) ==
    [i \in DOMAIN T \cup {id} |->
        IF i = id THEN NewRow(priority, model_pref, payload, t, execute_after)
        ELSE [T[i] EXCEPT !.created_at = t]]

InsertTask(T, id, priority, model_pref, payload, t, execute_after) ==
    [i \in DOMAIN T \cup {id} |->
        IF i = id THEN NewRow(priority, model_pref, payload, t, execute_after) ELSE T[i]]

EligibleAnyStatus(T, t) == {i \in DOMAIN T : T[i].execute_after <= t}

Eligible(T, t) == {i \in DOMAIN T : T[i].status = "PENDING" /\ T[i].execute_after <= t}

OrderedBeforeNoTieBreak(a, b) == a.priority <= b.priority

OrderedBefore(a, b) ==
    \/ a.priority < b.priority
    \/ a.priority = b.priority /\ a.created_at <= b.created_at

ClaimCandidates(T, t) ==
    {i \in Eligible(T, t) : \A j \in Eligible(T, t) : OrderedBefore(T[i], T[j])}

SetProcessingKeepsPending(T, id) == T

SetProcessing(T, id) ==
    [i \in DOMAIN T |-> IF i = id THEN [T[i] EXCEPT !.status = "PROCESSING"] ELSE T[i]]

CompleteUpdateCountsAttempt(T, id, result) ==
    [i \in DOMAIN T |->
        IF i = id
        THEN [T[i] EXCEPT !.status = "COMPLETED", !.result = Some(result),
                          !.attempts = T[i].attempts + 1]
        ELSE T[i]]

CompleteUpdate(T, id, result) ==
    [i \in DOMAIN T |->
        IF i = id THEN [T[i] EXCEPT !.status = "COMPLETED", !.result = Some(result)] ELSE T[i]]

FailStatusOffByOne(attempts, max_attempts) ==
    IF attempts > max_attempts THEN "DEAD_LETTER" ELSE "PENDING"

FailStatus(attempts, max_attempts) ==
    IF attempts >= max_attempts THEN "DEAD_LETTER" ELSE "PENDING"

BackoffConstant(attempts) == BackoffBase * Sec

Backoff(attempts) == Pow2(attempts) * BackoffBase * Sec

FailNextTry(attempts, max_attempts, t) ==
    IF attempts >= max_attempts THEN 0 ELSE t + Backoff(attempts)

FailUpdateNoMessage(T, id, attempts, error_msg, max_attempts, t) ==
    [i \in DOMAIN T |->
        IF i = id
        THEN [T[i] EXCEPT !.status = FailStatus(attempts, max_attempts),
                          !.attempts = T[i].attempts + 1,
                          !.execute_after = FailNextTry(attempts, max_attempts, t)]
        ELSE T[i]]

FailUpdate(T, id, attempts, error_msg, max_attempts, t) ==
    [i \in DOMAIN T |->
        IF i = id
        THEN [T[i] EXCEPT !.status = FailStatus(attempts, max_attempts),
                          !.attempts = T[i].attempts + 1,
                          !.error_message = Some(error_msg),
                          !.execute_after = FailNextTry(attempts, max_attempts, t)]
        ELSE T[i]]

ReleaseUpdateCountsAttempt(T, id, t, delay) ==
    [i \in DOMAIN T |->
        IF i = id
        THEN [T[i] EXCEPT !.status = "PENDING", !.execute_after = t + delay,
                          !.attempts = T[i].attempts + 1]
        ELSE T[i]]

ReleaseUpdate(T, id, t, delay) ==
    [i \in DOMAIN T |->
        IF i = id THEN [T[i] EXCEPT !.status = "PENDING", !.execute_after = t + delay] ELSE T[i]]

IsStuckAnyAge(r, t, timeout) == r.status = "PROCESSING"

IsStuck(r, t, timeout) == r.status = "PROCESSING" /\ r.created_at < t - timeout

ResetStuckUpdateNothing(T, t, timeout) == T

ResetStuckUpdate(T, t, timeout) ==
    [i \in DOMAIN T |->
        IF IsStuck(T[i], t, timeout)
        THEN [T[i] EXCEPT !.status = "PENDING", !.attempts = T[i].attempts + 1]
        ELSE T[i]]

ClearCompletedUpdateAnyStatus(T, t, age) ==
    [i \in {j \in DOMAIN T : ~(T[j].created_at < t - age)} |-> T[i]]

ClearCompletedUpdate(T, t, age) ==
    [i \in {j \in DOMAIN T : ~(T[j].status = "COMPLETED" /\ T[j].created_at < t - age)} |-> T[i]]

(***************************************************************************)
(* Rate limiter: tiers, limits, the persisted state and the gates.         *)
(***************************************************************************)
Tiers == {"flash-lite", "flash-3", "pro-3", "pro-25", "image-pro", "image-flash"}

ModelLimits ==
    [tier \in Tiers |->
        CASE tier = "flash-lite" -> [daily |-> 1500, rpm |-> 60]
          [] tier = "flash-3" -> [daily |-> -1, rpm |-> 60]
          [] tier = "pro-3" -> [daily |-> 100, rpm |-> 30]
          [] tier = "pro-25" -> [daily |-> 100, rpm |-> 60]
          [] tier = "image-pro" -> [daily |-> 1000, rpm |-> 10]
          [] OTHER -> [daily |-> 1000, rpm |-> 60]]

ModelIdToTier ==
    [m \in {"gemini-2.5-flash-lite", "gemini-3-flash-preview", "gemini-2.5-flash",
            "gemini-3-pro-preview", "gemini-2.5-pro", "gemini-3-pro-image-preview",
            "gemini-2.5-flash-image"} |->
        CASE m = "gemini-2.5-flash-lite" -> "flash-lite"
          [] m = "gemini-3-flash-preview" -> "flash-3"
          [] m = "gemini-2.5-flash" -> "flash-3"
          [] m = "gemini-3-pro-preview" -> "pro-3"
          [] m = "gemini-2.5-pro" -> "pro-25"
          [] m = "gemini-3-pro-image-preview" -> "image-pro"
          [] OTHER -> "image-flash"]

GetTier(model_pref) ==
    IF model_pref \in DOMAIN ModelIdToTier THEN ModelIdToTier[model_pref]
    ELSE IF model_pref \in Tiers THEN model_pref
    ELSE "flash-lite"

DayLength == 86400 * Sec

Today(t) == t \div DayLength

FreshState(t) ==
    [date |-> Today(t),
     usage |-> [a \in Accounts |-> [tier \in Tiers |-> 0]],
     last |-> [a \in Accounts |-> [tier \in Tiers |-> 0]]]

LoadStateNoRollover(F, t) == F

LoadState(F, t) == IF F.date # Today(t) THEN FreshState(t) ELSE F

EffectiveLimit(tier) == (ModelLimits[tier].daily * SafetyNum) \div SafetyDen

MinGap(tier) == (60 * Sec * SafetyDen) \div (ModelLimits[tier].rpm * SafetyNum)

DailyGateOpenOffByOne(S, tier, a) ==
    ModelLimits[tier].daily > 0 => S.usage[a][tier] <= EffectiveLimit(tier)

DailyGateOpen(S, tier, a) ==
    ModelLimits[tier].daily > 0 => S.usage[a][tier] < EffectiveLimit(tier)

RateGateOpenWholeSeconds(S, tier, a, t) ==
    ~((t - S.last[a][tier]) \div Sec < MinGap(tier) \div Sec)

RateGateOpen(S, tier, a, t) == ~(t - S.last[a][tier] < MinGap(tier))

Available(S, tier, t) == {a \in Accounts : DailyGateOpen(S, tier, a) /\ RateGateOpen(S, tier, a, t)}

PreferredBeforeByIndex(S, tier, a, b) == a <= b

PreferredBefore(S, tier, a, b) ==
    \/ S.last[a][tier] < S.last[b][tier]
    \/ S.last[a][tier] = S.last[b][tier] /\ a <= b

AcquireSlot(S, model_pref, t) ==
    LET tier == GetTier(model_pref)
        ok == Available(S, tier, t)
    IN  IF ok = {} THEN 0
        ELSE CHOOSE a \in ok : \A b \in ok : PreferredBefore(S, tier, a, b)

RecordUsageTwice(S, a, model_pref, t) ==
    LET tier == GetTier(model_pref)
    IN  [S EXCEPT !.usage[a][tier] = S.usage[a][tier] + 2, !.last[a][tier] = t]

RecordUsage(S, a, model_pref, t) ==
    LET tier == GetTier(model_pref)
    IN  [S EXCEPT !.usage[a][tier] = S.usage[a][tier] + 1, !.last[a][tier] = t]

WaitCandidates(S, tier) ==
    {a \in Accounts : ~(ModelLimits[tier].daily > 0 /\ S.usage[a][tier] >= ModelLimits[tier].daily)}

AccountWait(S, tier, a, t) == Max(0, MinGap(tier) - (t - S.last[a][tier]))

GetWaitTime(S, model_pref, t) ==
    LET tier == GetTier(model_pref)
        cands == WaitCandidates(S, tier)
    IN  IF AcquireSlot(S, model_pref, t) # 0 THEN 0
        ELSE IF cands = {} THEN FallbackWait * Sec
        ELSE CHOOSE w \in {AccountWait(S, tier, a, t) : a \in cands} :
                \A a \in cands : w <= AccountWait(S, tier, a, t)

RequeueDelayNoFloor(wait_time) == wait_time

RequeueDelay(wait_time) == Max(MinRequeueDelay * Sec, wait_time)

(***************************************************************************)
(* Daemon processes.  Each daemon has the main loop of run() and up to     *)
(* max_concurrent dispatches (_process_task coroutines).  Within one       *)
(* process the coroutines are scheduled cooperatively: code between two    *)
(* awaits runs without interleaving of the same process, while the other   *)
(* process and the clock may act between any two statements that touch     *)
(* the database or the limiter's state file.                               *)
(***************************************************************************)
ModelPrefs == {"flash-lite"}
Payload == "job"

NoDisp == [task |-> 0, model_pref |-> "", pc |-> "none", account |-> 0, at |-> 0, err |-> NULL, seen |-> 0]
NoState == FreshState(0)

SyncPcs == {"start", "nowait", "record", "except", "fail_upd"}

Active(d) == {k \in Slots : disp[d][k] # NoDisp}

CanRun(d) == pc[d] # "claim_upd" /\ \A k \in Slots : disp[d][k].pc \notin SyncPcs

HasCapacityOffByOne(d) == Cardinality(Active(d)) <= MaxConcurrent

HasCapacity(d) == Cardinality(Active(d)) < MaxConcurrent

TaskDelay == Sec \div 2
PollInterval == Sec

FreeSlot(d) == CHOOSE k \in Slots \ Active(d) : \A j \in Slots \ Active(d) : k <= j

InitUsages == {0, EffectiveLimit("flash-lite")}

NoCall == [op |-> "none", model_pref |-> "", account |-> 0, wait |-> 0]

NoTxn == [open |-> FALSE, size |-> 0, base |-> 0, model_pref |-> "", rows |-> <<>>, seen |-> 0]

Init ==
    /\ tasks = <<>>
    /\ nextId = 1
    /\ now = StartTime
    /\ ticks = 0
    /\ \E u \in InitUsages :
          file = [FreshState(StartTime) EXCEPT !.usage = [a \in Accounts |-> [tier \in Tiers |-> u]]]
    /\ mem = [d \in Daemons |-> NoState]
    /\ pc = [d \in Daemons |-> "off"]
    /\ running = [d \in Daemons |-> TRUE]
    /\ starts = [d \in Daemons |-> 0]
    /\ row = [d \in Daemons |-> 0]
    /\ disp = [d \in Daemons |-> [k \in Slots |-> NoDisp]]
    /\ nclaims = [i \in 1..MaxTasks |-> 0]
    /\ faildelay = <<>>
    /\ lcall = [p \in Daemons |-> NoCall]
    /\ txn = NoTxn

Tick(delta) ==
    /\ ticks < MaxTicks
    /\ now' = now + delta
    /\ ticks' = ticks + 1
    /\ UNCHANGED <<starts, tasks, nextId, file, mem, pc, running, row, disp, nclaims, faildelay, lcall, txn>>

AddTask(priority, model_pref, execute_after) ==
    /\ nextId <= MaxTasks
    /\ tasks' = InsertTask(tasks, nextId, priority, model_pref, Payload, now, execute_after)
    /\ nextId' = nextId + 1
    /\ UNCHANGED <<starts, now, ticks, file, mem, pc, running, row, disp, nclaims, faildelay, lcall, txn>>

ClaimsAfter(T) == [i \in DOMAIN nclaims |->
    IF i \in DOMAIN T /\ i \in DOMAIN tasks /\ T[i].status = "PENDING" /\ T[i] # tasks[i] THEN 0 ELSE nclaims[i]]

Start(d) ==
    /\ pc[d] = "off"
    /\ starts[d] < MaxStarts
    /\ starts' = [starts EXCEPT ![d] = @ + 1]
    /\ file' = LoadState(file, now)
    /\ mem' = [mem EXCEPT ![d] = LoadState(file, now)]
    /\ tasks' = ResetStuckUpdate(tasks, now, StuckTimeout * Sec)
    /\ nclaims' = ClaimsAfter(tasks')
    /\ running' = [running EXCEPT ![d] = TRUE]
    /\ pc' = [pc EXCEPT ![d] = "loop"]
    /\ UNCHANGED <<nextId, now, ticks, row, disp, faildelay, lcall, txn>>

Signal(d) ==
    /\ pc[d] # "off"
    /\ running[d]
    /\ running' = [running EXCEPT ![d] = FALSE]
    /\ UNCHANGED <<starts, tasks, nextId, now, ticks, file, mem, pc, row, disp, nclaims, faildelay, lcall, txn>>

Crash(d) ==
    /\ pc[d] # "off"
    /\ pc' = [pc EXCEPT ![d] = "off"]
    /\ disp' = [disp EXCEPT ![d] = [k \in Slots |-> NoDisp]]
    /\ row' = [row EXCEPT ![d] = 0]
    /\ mem' = [mem EXCEPT ![d] = NoState]
    /\ running' = [running EXCEPT ![d] = TRUE]
    /\ UNCHANGED <<starts, tasks, nextId, now, ticks, file, nclaims, faildelay, lcall, txn>>

LoopStop(d) ==
    /\ pc[d] = "loop"
    /\ ~running[d]
    /\ CanRun(d)
    /\ pc' = [pc EXCEPT ![d] = "drain"]
    /\ UNCHANGED <<starts, tasks, nextId, now, ticks, file, mem, running, row, disp, nclaims, faildelay, lcall, txn>>

DrainedAlways(d) == TRUE

Drained(d) == Active(d) = {}

DrainDone(d) ==
    /\ pc[d] = "drain"
    /\ Drained(d)
    /\ pc' = [pc EXCEPT ![d] = "off"]
    /\ mem' = [mem EXCEPT ![d] = NoState]
    /\ running' = [running EXCEPT ![d] = TRUE]
    /\ UNCHANGED <<starts, tasks, nextId, now, ticks, file, row, disp, nclaims, faildelay, lcall, txn>>

ClaimNone(d) ==
    /\ pc[d] = "loop"
    /\ running[d]
    /\ CanRun(d)
    /\ HasCapacity(d)
    /\ ClaimCandidates(tasks, now) = {}
    /\ pc' = [pc EXCEPT ![d] = "idle"]
    /\ UNCHANGED <<starts, tasks, nextId, now, ticks, file, mem, running, row, disp, nclaims, faildelay, lcall, txn>>

ClaimSelect(d) ==
    /\ pc[d] = "loop"
    /\ running[d]
    /\ CanRun(d)
    /\ HasCapacity(d)
    /\ \E i \in ClaimCandidates(tasks, now) :
          row' = [row EXCEPT ![d] = i]
    /\ pc' = [pc EXCEPT ![d] = "claim_upd"]
    /\ UNCHANGED <<starts, tasks, nextId, now, ticks, file, mem, running, disp, nclaims, faildelay, lcall, txn>>

ClaimUpdate(d) ==
    /\ pc[d] = "claim_upd"
    /\ tasks' = SetProcessing(tasks, row[d])
    /\ nclaims' = [nclaims EXCEPT ![row[d]] = @ + 1]
    /\ disp' = [disp EXCEPT ![d][FreeSlot(d)] =
                   [NoDisp EXCEPT !.task = row[d], !.model_pref = tasks[row[d]].model_pref, !.pc = "start"]]
    /\ row' = [row EXCEPT ![d] = 0]
    /\ pc' = [pc EXCEPT ![d] = "sleep"]
    /\ UNCHANGED <<starts, nextId, now, ticks, file, mem, running, faildelay, lcall, txn>>

Wake(d) ==
    /\ pc[d] \in {"sleep", "idle"}
    /\ CanRun(d)
    /\ pc' = [pc EXCEPT ![d] = "loop"]
    /\ UNCHANGED <<starts, tasks, nextId, now, ticks, file, mem, running, row, disp, nclaims, faildelay, lcall, txn>>

DAcquire(d, k) ==
    /\ disp[d][k].pc = "start"
    /\ LET S == LoadState(file, now)
           a == AcquireSlot(S, disp[d][k].model_pref, now)
       IN  /\ file' = S
           /\ mem' = [mem EXCEPT ![d] = S]
           /\ disp' = [disp EXCEPT ![d][k].account = a,
                                   ![d][k].at = now,
                                   ![d][k].pc = IF a = 0 THEN "nowait" ELSE "handler"]
    /\ UNCHANGED <<starts, tasks, nextId, now, ticks, pc, running, row, nclaims, faildelay, lcall, txn>>

DNoSlot(d, k) ==
    /\ disp[d][k].pc = "nowait"
    /\ LET S == LoadState(file, now)
           wait_time == GetWaitTime(S, disp[d][k].model_pref, now)
       IN  /\ file' = S
           /\ mem' = [mem EXCEPT ![d] = S]
           /\ tasks' = ReleaseUpdate(tasks, disp[d][k].task, now, RequeueDelay(wait_time))
    /\ nclaims' = ClaimsAfter(tasks')
    /\ disp' = [disp EXCEPT ![d][k] = NoDisp]
    /\ UNCHANGED <<starts, nextId, now, ticks, pc, running, row, faildelay, lcall, txn>>

DHandlerOk(d, k) ==
    /\ disp[d][k].pc = "handler"
    /\ CanRun(d)
    /\ tasks' = CompleteUpdate(tasks, disp[d][k].task, disp[d][k].account)
    /\ disp' = [disp EXCEPT ![d][k].pc = "record"]
    /\ UNCHANGED <<starts, nextId, now, ticks, file, mem, pc, running, row, nclaims, faildelay, lcall, txn>>

DRecord(d, k) ==
    /\ disp[d][k].pc = "record"
    /\ mem' = [mem EXCEPT ![d] = RecordUsage(mem[d], disp[d][k].account, disp[d][k].model_pref, now)]
    /\ file' = mem'[d]
    /\ disp' = [disp EXCEPT ![d][k] = NoDisp]
    /\ UNCHANGED <<starts, tasks, nextId, now, ticks, pc, running, row, nclaims, faildelay, lcall, txn>>

DRecordRaise(d, k) ==
    /\ disp[d][k].pc = "record"
    /\ mem' = [mem EXCEPT ![d] = RecordUsage(mem[d], disp[d][k].account, disp[d][k].model_pref, now)]
    /\ disp' = [disp EXCEPT ![d][k].pc = "except", ![d][k].err = Some(MsgNoSpace)]
    /\ UNCHANGED <<starts, tasks, nextId, now, ticks, file, pc, running, row, nclaims, faildelay, lcall, txn>>

DHandlerRaise(d, k, msg) ==
    /\ disp[d][k].pc = "handler"
    /\ CanRun(d)
    /\ disp' = [disp EXCEPT ![d][k].pc = "except", ![d][k].err = Some(msg)]
    /\ UNCHANGED <<starts, tasks, nextId, now, ticks, file, mem, pc, running, row, nclaims, faildelay, lcall, txn>>

DExceptRelease(d, k) ==
    /\ disp[d][k].pc = "except"
    /\ IsCapacityError(disp[d][k].err[1])
    /\ tasks' = ReleaseUpdate(tasks, disp[d][k].task, now, CapacityCooldown * Sec)
    /\ nclaims' = ClaimsAfter(tasks')
    /\ disp' = [disp EXCEPT ![d][k] = NoDisp]
    /\ UNCHANGED <<starts, nextId, now, ticks, file, mem, pc, running, row, faildelay, lcall, txn>>

DExceptFailSelect(d, k) ==
    /\ disp[d][k].pc = "except"
    /\ ~IsCapacityError(disp[d][k].err[1])
    /\ disp' = [disp EXCEPT ![d][k].pc = "fail_upd", ![d][k].seen = tasks[disp[d][k].task].attempts]
    /\ UNCHANGED <<starts, tasks, nextId, now, ticks, file, mem, pc, running, row, nclaims, faildelay, lcall, txn>>

DFailUpdate(d, k) ==
    /\ disp[d][k].pc = "fail_upd"
    /\ tasks' = FailUpdate(tasks, disp[d][k].task, disp[d][k].seen, disp[d][k].err[1], MaxAttempts, now)
    /\ nclaims' = ClaimsAfter(tasks')
    /\ disp' = [disp EXCEPT ![d][k] = NoDisp]
    /\ UNCHANGED <<starts, nextId, now, ticks, file, mem, pc, running, row, faildelay, lcall, txn>>

(***************************************************************************)
(* Spec: the normal deployment, one daemon process (its restarts           *)
(* included) and the producers that add tasks through                      *)
(* GeminiDaemon.add_task, which never passes execute_after.                *)
(***************************************************************************)
Next ==
    \/ \E delta \in TickSteps : Tick(delta)
    \/ \E m \in ModelPrefs : AddTask(DefaultPriority, m, 0)
    \/ Start(1)
    \/ Signal(1)
    \/ Crash(1)
    \/ LoopStop(1)
    \/ DrainDone(1)
    \/ ClaimNone(1)
    \/ ClaimSelect(1)
    \/ ClaimUpdate(1)
    \/ Wake(1)
    \/ \E k \in Slots : DAcquire(1, k)
    \/ \E k \in Slots : DNoSlot(1, k)
    \/ \E k \in Slots : DHandlerOk(1, k)
    \/ \E k \in Slots : DRecord(1, k)
    \/ \E k \in Slots, msg \in ErrorTexts : DHandlerRaise(1, k, msg)
    \/ \E k \in Slots : DExceptRelease(1, k)
    \/ \E k \in Slots : DExceptFailSelect(1, k)
    \/ \E k \in Slots : DFailUpdate(1, k)

Spec == Init /\ [][Next]_vars

(***************************************************************************)
(* FaultSpec: the same deployment on a machine where writing the limiter's *)
(* state file can fail (full disk, lost permission), so that record_usage  *)
(* raises after complete_task has run.                                     *)
(***************************************************************************)
FaultNext ==
    \/ Next
    \/ \E k \in Slots : DRecordRaise(1, k)

FaultSpec == Init /\ [][FaultNext]_vars

(***************************************************************************)
(* DuoSpec: two daemon processes on the same database and state file (a    *)
(* prior instance that has not stopped and a new one).                     *)
(***************************************************************************)
DuoNext ==
    \/ \E delta \in TickSteps : Tick(delta)
    \/ \E m \in ModelPrefs : AddTask(DefaultPriority, m, 0)
    \/ \E d \in Daemons : Start(d)
    \/ \E d \in Daemons : Crash(d)
    \/ \E d \in Daemons : Active(d) = {} /\ ClaimNone(d)
    \/ \E d \in Daemons : Active(d) = {} /\ ClaimSelect(d)
    \/ \E d \in Daemons : ClaimUpdate(d)
    \/ \E d \in Daemons : Wake(d)
    \/ \E d \in Daemons, k \in Slots : DAcquire(d, k)
    \/ \E d \in Daemons, k \in Slots : DNoSlot(d, k)
    \/ \E d \in Daemons, k \in Slots : DHandlerOk(d, k)
    \/ \E d \in Daemons, k \in Slots : DRecord(d, k)
    \/ \E d \in Daemons, k \in Slots, msg \in ErrorTexts : DHandlerRaise(d, k, msg)
    \/ \E d \in Daemons, k \in Slots : DExceptRelease(d, k)
    \/ \E d \in Daemons, k \in Slots : DExceptFailSelect(d, k)
    \/ \E d \in Daemons, k \in Slots : DFailUpdate(d, k)

DuoSpec == Init /\ [][DuoNext]_vars

(***************************************************************************)
(* PoolSpec: one running daemon with several tasks in the queue and the    *)
(* sleeps of run() timed: the pacing sleep returns task_delay (0.5 s) and  *)
(* the idle poll poll_interval (1 s) after it began.  Handlers fail with   *)
(* the capacity message of the Gemini CLI.                                 *)
(***************************************************************************)
PoolErrors == {Msg429}

PoolInit ==
    /\ tasks = <<>>
    /\ nextId = 1
    /\ now = StartTime
    /\ ticks = 0
    /\ \E u \in InitUsages :
          file = [FreshState(StartTime) EXCEPT !.usage = [a \in Accounts |-> [tier \in Tiers |-> u]]]
    /\ mem = [d \in Daemons |-> NoState]
    /\ pc = [d \in Daemons |-> "off"]
    /\ running = [d \in Daemons |-> TRUE]
    /\ starts = [d \in Daemons |-> 0]
    /\ row = [d \in Daemons |-> 0]
    /\ disp = [d \in Daemons |-> [k \in Slots |-> NoDisp]]
    /\ nclaims = [i \in 1..PoolTasks |-> 0]
    /\ faildelay = <<>>
    /\ lcall = [p \in Daemons |-> NoCall]
    /\ txn = NoTxn

PoolAdd(model_pref) ==
    /\ nextId <= PoolTasks
    /\ tasks' = InsertTask(tasks, nextId, DefaultPriority, model_pref, Payload, now, 0)
    /\ nextId' = nextId + 1
    /\ UNCHANGED <<starts, now, ticks, file, mem, pc, running, row, disp, nclaims, faildelay, lcall, txn>>

Pace(d) ==
    /\ pc[d] \in {"sleep", "idle"}
    /\ CanRun(d)
    /\ ticks < PoolTicks
    /\ now' = now + (IF pc[d] = "idle" THEN PollInterval ELSE TaskDelay)
    /\ ticks' = ticks + 1
    /\ pc' = [pc EXCEPT ![d] = "loop"]
    /\ UNCHANGED <<starts, tasks, nextId, file, mem, running, row, disp, nclaims, faildelay, lcall, txn>>

PoolNext ==
    \/ \E m \in ModelPrefs : PoolAdd(m)
    \/ Start(1)
    \/ ClaimNone(1)
    \/ ClaimSelect(1)
    \/ ClaimUpdate(1)
    \/ Pace(1)
    \/ \E k \in Slots : DAcquire(1, k)
    \/ \E k \in Slots : DNoSlot(1, k)
    \/ \E k \in Slots : DHandlerOk(1, k)
    \/ \E k \in Slots : DRecord(1, k)
    \/ \E k \in Slots, msg \in PoolErrors : DHandlerRaise(1, k, msg)
    \/ \E k \in Slots : DExceptRelease(1, k)

PoolSpec == PoolInit /\ [][PoolNext]_vars

(***************************************************************************)
(* LiveSpec: one daemon that is started, signalled to stop and started     *)
(* again, with several tasks in the queue.  The event loop of asyncio runs *)
(* every coroutine that is ready, and every handler returns or raises:     *)
(* the steps of the main loop and the steps of the dispatches are each     *)
(* taken when they stay enabled.                                           *)
(***************************************************************************)
LoopSteps ==
    \/ LoopStop(1)
    \/ DrainDone(1)
    \/ ClaimUpdate(1)
    \/ Wake(1)

DispatchSteps ==
    \/ \E k \in Slots : DAcquire(1, k)
    \/ \E k \in Slots : DNoSlot(1, k)
    \/ \E k \in Slots : DHandlerOk(1, k)
    \/ \E k \in Slots : DRecord(1, k)
    \/ \E k \in Slots, msg \in PoolErrors : DHandlerRaise(1, k, msg)
    \/ \E k \in Slots : DExceptRelease(1, k)

LiveNext ==
    \/ \E m \in ModelPrefs : PoolAdd(m)
    \/ Start(1)
    \/ Signal(1)
    \/ ClaimNone(1)
    \/ ClaimSelect(1)
    \/ LoopSteps
    \/ DispatchSteps

LiveSpec == PoolInit /\ [][LiveNext]_vars /\ WF_vars(LoopSteps) /\ WF_vars(DispatchSteps)

(***************************************************************************)
(* ContainSpec: one running daemon whose handlers return, raise the        *)
(* capacity messages of the Gemini CLI or raise another error, with        *)
(* several tasks in the queue.  No time passes, so a task that was         *)
(* released or re-queued is not eligible again.  The event loop runs every *)
(* coroutine that is ready: the steps of the loop, the claim and the steps *)
(* of the dispatches are each taken when they stay enabled.                *)
(***************************************************************************)
ContainAdd(model_pref) ==
    /\ nextId <= ContainTasks
    /\ PoolAdd(model_pref)

ContainErrors == {MsgExhausted, MsgTimeout}

ContainLoop ==
    \/ ClaimNone(1)
    \/ ClaimSelect(1)
    \/ ClaimUpdate(1)
    \/ Wake(1)

ContainDispatch ==
    \/ \E k \in Slots : DAcquire(1, k)
    \/ \E k \in Slots : DNoSlot(1, k)
    \/ \E k \in Slots : DHandlerOk(1, k)
    \/ \E k \in Slots : DRecord(1, k)
    \/ \E k \in Slots, msg \in ContainErrors : DHandlerRaise(1, k, msg)
    \/ \E k \in Slots : DExceptRelease(1, k)
    \/ \E k \in Slots : DExceptFailSelect(1, k)
    \/ \E k \in Slots : DFailUpdate(1, k)

ContainNext ==
    \/ \E m \in ModelPrefs : ContainAdd(m)
    \/ Start(1)
    \/ ContainLoop
    \/ ContainDispatch

ContainSpec ==
    PoolInit /\ [][ContainNext]_vars /\ WF_vars(ContainLoop) /\ WF_vars(ContainDispatch)

(***************************************************************************)
(* BootSpec: one daemon that is started, killed and started again while    *)
(* the clock moves on, with several tasks in the queue and handlers that   *)
(* return or fail with a timeout.                                          *)
(***************************************************************************)
BootErrors == {MsgTimeout}

BootAdd(model_pref) ==
    /\ nextId <= BootTasks
    /\ PoolAdd(model_pref)

BootNext ==
    \/ \E delta \in TickSteps : Tick(delta)
    \/ \E m \in ModelPrefs : BootAdd(m)
    \/ Start(1)
    \/ Crash(1)
    \/ ClaimNone(1)
    \/ ClaimSelect(1)
    \/ ClaimUpdate(1)
    \/ Wake(1)
    \/ \E k \in Slots : DAcquire(1, k)
    \/ \E k \in Slots : DNoSlot(1, k)
    \/ \E k \in Slots : DHandlerOk(1, k)
    \/ \E k \in Slots : DRecord(1, k)
    \/ \E k \in Slots, msg \in BootErrors : DHandlerRaise(1, k, msg)
    \/ \E k \in Slots : DExceptFailSelect(1, k)
    \/ \E k \in Slots : DFailUpdate(1, k)

BootSpec == PoolInit /\ [][BootNext]_vars

(***************************************************************************)
(* StoreSpec and ClaimSpec: the task store called directly, one call at a  *)
(* time, by arbitrary callers.  faildelay remembers, for every task, the   *)
(* delay applied by the last fail_task call that re-queued it.             *)
(***************************************************************************)
StoreErrors == {MsgTimeout}

StoreVarsIdle == UNCHANGED <<file, mem, pc, running, starts, row, disp, nclaims, lcall, txn>>

StoreInit ==
    /\ Init
    /\ file.usage[1]["flash-lite"] = 0

StoreTick(delta, max_ticks) ==
    /\ ticks < max_ticks
    /\ now' = now + delta
    /\ ticks' = ticks + 1
    /\ UNCHANGED <<tasks, nextId, faildelay>>
    /\ StoreVarsIdle

StoreAdd(priority, model_pref, execute_after, max_tasks) ==
    /\ nextId <= max_tasks
    /\ tasks' = InsertTask(tasks, nextId, priority, model_pref, Payload, now, execute_after)
    /\ nextId' = nextId + 1
    /\ faildelay' = [i \in DOMAIN tasks' |-> IF i \in DOMAIN faildelay THEN faildelay[i] ELSE 0]
    /\ UNCHANGED <<now, ticks>>
    /\ StoreVarsIdle

StoreClaim ==
    /\ ClaimCandidates(tasks, now) # {}
    /\ \E i \in ClaimCandidates(tasks, now) : tasks' = SetProcessing(tasks, i)
    /\ UNCHANGED <<nextId, now, ticks, faildelay>>
    /\ StoreVarsIdle

StoreComplete(id, result) ==
    /\ tasks' = CompleteUpdate(tasks, id, result)
    /\ UNCHANGED <<nextId, now, ticks, faildelay>>
    /\ StoreVarsIdle

StoreFail(id, error_msg, max_attempts) ==
    /\ id \in DOMAIN tasks => tasks[id].attempts < AttemptCap
    /\ tasks' = IF id \in DOMAIN tasks
                THEN FailUpdate(tasks, id, tasks[id].attempts, error_msg, max_attempts, now)
                ELSE tasks
    /\ faildelay' = [i \in DOMAIN faildelay |->
                        IF i = id /\ tasks'[i].status = "PENDING"
                        THEN tasks'[i].execute_after - now ELSE faildelay[i]]
    /\ UNCHANGED <<nextId, now, ticks>>
    /\ StoreVarsIdle

StoreRelease(id, delay_seconds) ==
    /\ tasks' = ReleaseUpdate(tasks, id, now, delay_seconds)
    /\ UNCHANGED <<nextId, now, ticks, faildelay>>
    /\ StoreVarsIdle

StoreResetStuck(timeout_seconds) ==
    /\ \A i \in DOMAIN tasks : IsStuck(tasks[i], now, timeout_seconds) => tasks[i].attempts < AttemptCap
    /\ tasks' = ResetStuckUpdate(tasks, now, timeout_seconds)
    /\ UNCHANGED <<nextId, now, ticks, faildelay>>
    /\ StoreVarsIdle

StoreNext ==
    \/ \E delta \in TickSteps : StoreTick(delta, MaxTicks)
    \/ \E m \in ModelPrefs : StoreAdd(DefaultPriority, m, 0, StoreTasks)
    \/ StoreClaim
    \/ \E id \in 1..(StoreTasks + 1) : StoreComplete(id, 1)
    \/ \E id \in 1..(StoreTasks + 1), msg \in StoreErrors : StoreFail(id, msg, MaxAttempts)
    \/ StoreResetStuck(StuckTimeout * Sec)

StoreSpec == StoreInit /\ [][StoreNext]_vars

StoreClear(older_than_hours) ==
    /\ tasks' = ClearCompletedUpdate(tasks, now, older_than_hours * 3600 * Sec)
    /\ faildelay' = [i \in DOMAIN tasks' |-> faildelay[i]]
    /\ UNCHANGED <<nextId, now, ticks>>
    /\ StoreVarsIdle

ClaimNext ==
    \/ \E delta \in ClaimTickSteps : StoreTick(delta, ClaimTicks)
    \/ \E p \in Priorities, m \in ModelPrefs, e \in {0, now + MinRequeueDelay * Sec} : StoreAdd(p, m, e, ClaimTasks)
    \/ StoreClaim
    \/ \E id \in 1..ClaimTasks : StoreRelease(id, MinRequeueDelay * Sec)

ClaimSpec == StoreInit /\ [][ClaimNext]_vars

(***************************************************************************)
(* LimSpec and LimDuoSpec: the rate limiter called directly.  Every        *)
(* instance (process) p keeps its own in-memory state mem[p]; lcall[p] is  *)
(* the last call of that instance with what it returned.  A caller records *)
(* usage for the account its last acquire_slot returned, as the dispatch   *)
(* code does.  LimSpec has one instance, LimDuoSpec two instances sharing  *)
(* the state file.                                                         *)
(***************************************************************************)
LimTicks == 2

LimPrefs == {"flash-lite", "gemini-2.5-flash"}

LimTickSteps == {Sec, DayLength}

LimUsages == {EffectiveLimit("flash-lite") - 2, EffectiveLimit("flash-lite") - 1, ModelLimits["flash-lite"].daily}

LimVarsIdle == UNCHANGED <<tasks, nextId, pc, running, starts, row, disp, nclaims, faildelay, txn>>

LimInit ==
    /\ tasks = <<>>
    /\ nextId = 1
    /\ now = StartTime
    /\ ticks = 0
    /\ \E u \in [Accounts -> LimUsages] :
          file = [FreshState(StartTime) EXCEPT !.usage = [a \in Accounts |-> [tier \in Tiers |-> u[a]]]]
    /\ mem = [d \in Daemons |-> NoState]
    /\ pc = [d \in Daemons |-> "off"]
    /\ running = [d \in Daemons |-> TRUE]
    /\ starts = [d \in Daemons |-> 0]
    /\ row = [d \in Daemons |-> 0]
    /\ disp = [d \in Daemons |-> [k \in Slots |-> NoDisp]]
    /\ nclaims = [i \in 1..MaxTasks |-> 0]
    /\ faildelay = <<>>
    /\ lcall = [p \in Daemons |-> NoCall]
    /\ txn = NoTxn

LimTick(delta) ==
    /\ ticks < LimTicks
    /\ now' = now + delta
    /\ ticks' = ticks + 1
    /\ UNCHANGED <<file, mem, lcall, txn>>
    /\ LimVarsIdle

LimAcquire(p, model_pref) ==
    /\ LET S == LoadState(file, now)
       IN  /\ file' = S
           /\ mem' = [mem EXCEPT ![p] = S]
           /\ lcall' = [lcall EXCEPT ![p] = [op |-> "acquire", model_pref |-> model_pref,
                                             account |-> AcquireSlot(S, model_pref, now), wait |-> 0]]
    /\ UNCHANGED <<now, ticks>>
    /\ LimVarsIdle

LimRecord(p) ==
    /\ lcall[p].op = "acquire"
    /\ lcall[p].account # 0
    /\ mem' = [mem EXCEPT ![p] = RecordUsage(mem[p], lcall[p].account, lcall[p].model_pref, now)]
    /\ file' = mem'[p]
    /\ lcall' = [lcall EXCEPT ![p].op = "record"]
    /\ UNCHANGED <<now, ticks>>
    /\ LimVarsIdle

LimWait(p, model_pref) ==
    /\ LET S == LoadState(file, now)
       IN  /\ file' = S
           /\ mem' = [mem EXCEPT ![p] = S]
           /\ lcall' = [lcall EXCEPT ![p] = [op |-> "wait", model_pref |-> model_pref,
                                             account |-> 0, wait |-> GetWaitTime(S, model_pref, now)]]
    /\ UNCHANGED <<now, ticks>>
    /\ LimVarsIdle

LimReport(p) ==
    /\ LET S == LoadState(file, now)
       IN  /\ file' = S
           /\ mem' = [mem EXCEPT ![p] = S]
    /\ lcall' = [lcall EXCEPT ![p] = [NoCall EXCEPT !.op = "report"]]
    /\ UNCHANGED <<now, ticks>>
    /\ LimVarsIdle

LimNext ==
    \/ \E delta \in LimTickSteps : LimTick(delta)
    \/ \E m \in LimPrefs : LimAcquire(1, m)
    \/ LimRecord(1)
    \/ \E m \in LimPrefs : LimWait(1, m)
    \/ LimReport(1)

LimSpec == LimInit /\ [][LimNext]_vars

LimDuoNext ==
    \/ \E delta \in LimTickSteps : LimTick(delta)
    \/ \E p \in Daemons, m \in ModelPrefs : LimAcquire(p, m)
    \/ \E p \in Daemons : LimRecord(p)
    \/ \E p \in Daemons : LimReport(p)

LimDuoSpec == LimInit /\ [][LimDuoNext]_vars

(***************************************************************************)
(* BatchSpec: producers that call add_task and add_batch, a consumer that  *)
(* calls claim_task and a monitor that calls get_stats, each on its own    *)
(* connection.  tasks is the committed table, which is what another        *)
(* connection reads and what is left after the writer is killed; txn holds *)
(* the rows that an add_batch call has inserted in its transaction, which  *)
(* is committed when the with block of the connection is left.  While the  *)
(* transaction is open the database's write lock is taken: add_task and   *)
(* the UPDATE of claim_task wait for it (a claim_task that finds no        *)
(* eligible row returns at once and changes nothing).                      *)
(***************************************************************************)
BatchBases == {10, DefaultPriority}

InsertAutocommit(T, id, r) == [i \in DOMAIN T \cup {id} |-> IF i = id THEN r ELSE T[i]]

InsertInTransaction(T, id, r) == T

CommitRows(T, first, rows) ==
    [i \in DOMAIN T \cup {first + k - 1 : k \in DOMAIN rows} |->
        IF i >= first /\ i - first + 1 \in DOMAIN rows THEN rows[i - first + 1] ELSE T[i]]

PendingCount(T) == Cardinality({i \in DOMAIN T : T[i].status = "PENDING"})

BatchVarsIdle == UNCHANGED <<file, mem, pc, running, starts, row, disp, nclaims, faildelay, lcall>>

BatchTick(delta) ==
    /\ ticks < FrameTicks
    /\ now' = now + delta
    /\ ticks' = ticks + 1
    /\ UNCHANGED <<tasks, nextId, txn>>
    /\ BatchVarsIdle

BatchAddOne(model_pref) ==
    /\ ~txn.open
    /\ nextId <= BatchTasks
    /\ tasks' = InsertTask(tasks, nextId, DefaultPriority, model_pref, Payload, now, 0)
    /\ nextId' = nextId + 1
    /\ UNCHANGED <<now, ticks, txn>>
    /\ BatchVarsIdle

BatchBegin(size, model_pref, base_priority) ==
    /\ ~txn.open
    /\ nextId + size - 1 <= BatchTasks
    /\ txn' = [NoTxn EXCEPT !.open = TRUE, !.size = size, !.base = base_priority,
                            !.model_pref = model_pref, !.seen = txn.seen]
    /\ UNCHANGED <<tasks, nextId, now, ticks>>
    /\ BatchVarsIdle

BatchInsert ==
    /\ txn.open
    /\ Len(txn.rows) < txn.size
    /\ LET r == NewRow(txn.base + Len(txn.rows), txn.model_pref, Payload, now, 0)
       IN  /\ txn' = [txn EXCEPT !.rows = Append(@, r)]
           /\ tasks' = InsertInTransaction(tasks, nextId + Len(txn.rows), r)
    /\ UNCHANGED <<nextId, now, ticks>>
    /\ BatchVarsIdle

BatchCommit ==
    /\ txn.open
    /\ Len(txn.rows) = txn.size
    /\ tasks' = CommitRows(tasks, nextId, txn.rows)
    /\ nextId' = nextId + txn.size
    /\ txn' = [NoTxn EXCEPT !.seen = txn.seen]
    /\ UNCHANGED <<now, ticks>>
    /\ BatchVarsIdle

BatchCrash ==
    /\ txn.open
    /\ txn' = [NoTxn EXCEPT !.seen = txn.seen]
    /\ UNCHANGED <<tasks, nextId, now, ticks>>
    /\ BatchVarsIdle

BatchClaim ==
    /\ ~txn.open
    /\ ClaimCandidates(tasks, now) # {}
    /\ \E i \in ClaimCandidates(tasks, now) : tasks' = SetProcessing(tasks, i)
    /\ UNCHANGED <<nextId, now, ticks, txn>>
    /\ BatchVarsIdle

BatchStats ==
    /\ txn' = [txn EXCEPT !.seen = PendingCount(tasks)]
    /\ UNCHANGED <<tasks, nextId, now, ticks>>
    /\ BatchVarsIdle

BatchNext ==
    \/ \E delta \in {Sec} : BatchTick(delta)
    \/ \E m \in ModelPrefs : BatchAddOne(m)
    \/ \E size \in 1..BatchSize, m \in ModelPrefs, base \in BatchBases : BatchBegin(size, m, base)
    \/ BatchInsert
    \/ BatchCommit
    \/ BatchCrash
    \/ BatchClaim
    \/ BatchStats

BatchSpec == StoreInit /\ [][BatchNext]_vars

(***************************************************************************)
(* FrameSpec and PurgeSpec: the writing operations of the task store       *)
(* called one at a time on a store of several tasks.  FrameSpec has the    *)
(* life of a claimed task without failures: add_task, claim_task,          *)
(* complete_task (also with an unknown id), release_task and               *)
(* reset_stuck_tasks.  PurgeSpec has the ways a task ends and leaves the   *)
(* store: complete_task on a task in any status or with an unknown id,     *)
(* fail_task with max_attempts = 1 and clear_completed with                *)
(* older_than_hours = 0.                                                   *)
(***************************************************************************)
FrameResults == {1, 2}
FrameHours == {0}
PurgeErrors == {Msg429, MsgTimeout}

FrameNext ==
    \/ \E delta \in TickSteps : StoreTick(delta, FrameTicks)
    \/ \E m \in ModelPrefs : StoreAdd(DefaultPriority, m, 0, FrameTasks)
    \/ StoreClaim
    \/ \E id \in 1..(FrameTasks + 1), r \in FrameResults :
          /\ id \in DOMAIN tasks => tasks[id].status \in {"PROCESSING", "COMPLETED"}
          /\ StoreComplete(id, r)
    \/ \E id \in DOMAIN tasks :
          /\ tasks[id].status = "PROCESSING"
          /\ StoreRelease(id, MinRequeueDelay * Sec)
    \/ /\ \A i \in DOMAIN tasks : tasks[i].attempts < FrameAttempts
       /\ StoreResetStuck(StuckTimeout * Sec)

FrameSpec == StoreInit /\ [][FrameNext]_vars

PurgeNext ==
    \/ \E delta \in TickSteps : StoreTick(delta, FrameTicks)
    \/ \E m \in ModelPrefs : StoreAdd(DefaultPriority, m, 0, FrameTasks)
    \/ StoreClaim
    \/ \E id \in 1..(FrameTasks + 1), r \in FrameResults : StoreComplete(id, r)
    \/ \E id \in DOMAIN tasks, msg \in PurgeErrors :
          /\ tasks[id].status = "PROCESSING"
          /\ StoreFail(id, msg, 1)
    \/ \E h \in FrameHours : StoreClear(h)

PurgeSpec == StoreInit /\ [][PurgeNext]_vars

(***************************************************************************)
(* SweepSpec: the task store with a clock that stands still while a task   *)
(* is PROCESSING, so that every PROCESSING task was claimed at the present *)
(* clock reading; tasks may wait in the queue for six minutes before they  *)
(* are claimed.  reset_stuck_tasks is called by a daemon instance that     *)
(* starts.                                                                 *)
(***************************************************************************)
SweepTick(delta) ==
    /\ \A i \in DOMAIN tasks : tasks[i].status # "PROCESSING"
    /\ StoreTick(delta, FrameTicks)

SweepNext ==
    \/ \E delta \in TickSteps : SweepTick(delta)
    \/ \E m \in ModelPrefs : StoreAdd(DefaultPriority, m, 0, FrameTasks)
    \/ StoreClaim
    \/ \E id \in DOMAIN tasks, r \in FrameResults :
          /\ tasks[id].status = "PROCESSING"
          /\ StoreComplete(id, r)
    \/ \E id \in DOMAIN tasks :
          /\ tasks[id].status = "PROCESSING"
          /\ StoreRelease(id, MinRequeueDelay * Sec)
    \/ /\ \A i \in DOMAIN tasks : tasks[i].attempts < FrameAttempts
       /\ StoreResetStuck(StuckTimeout * Sec)

SweepSpec == StoreInit /\ [][SweepNext]_vars

(***************************************************************************)
(* QuotaSpec: one daemon late in a day, when every account has one request *)
(* left under its effective daily limit or none.  Producers add tasks, the *)
(* loop claims them and runs up to max_concurrent dispatches whose         *)
(* handlers return.                                                        *)
(***************************************************************************)
QuotaTasks == 3

QuotaUsages == {EffectiveLimit("flash-lite") - 1, EffectiveLimit("flash-lite")}

QuotaInit ==
    /\ tasks = <<>>
    /\ nextId = 1
    /\ now = StartTime
    /\ ticks = 0
    /\ \E u \in QuotaUsages :
          file = [FreshState(StartTime) EXCEPT
                     !.usage = [a \in Accounts |->
                                   [tier \in Tiers |-> IF tier = "flash-lite" THEN u ELSE 0]]]
    /\ mem = [d \in Daemons |-> NoState]
    /\ pc = [d \in Daemons |-> "off"]
    /\ running = [d \in Daemons |-> TRUE]
    /\ starts = [d \in Daemons |-> 0]
    /\ row = [d \in Daemons |-> 0]
    /\ disp = [d \in Daemons |-> [k \in Slots |-> NoDisp]]
    /\ nclaims = [i \in 1..QuotaTasks |-> 0]
    /\ faildelay = <<>>
    /\ lcall = [p \in Daemons |-> NoCall]
    /\ txn = NoTxn

QuotaAdd(model_pref) ==
    /\ nextId <= QuotaTasks
    /\ PoolAdd(model_pref)

QuotaNext ==
    \/ \E m \in ModelPrefs : QuotaAdd(m)
    \/ Start(1)
    \/ ClaimNone(1)
    \/ ClaimSelect(1)
    \/ ClaimUpdate(1)
    \/ Wake(1)
    \/ \E k \in Slots : DAcquire(1, k)
    \/ \E k \in Slots : DNoSlot(1, k)
    \/ \E k \in Slots : DHandlerOk(1, k)
    \/ \E k \in Slots : DRecord(1, k)

QuotaSpec == QuotaInit /\ [][QuotaNext]_vars

(***************************************************************************)
(* RetrySpec: one daemon that keeps running, with the day's quota unused,  *)
(* and handlers that always fail with an error that is not a capacity      *)
(* error.  The clock moves on to the next retry time of a task that waits  *)
(* for its backoff.  The event loop runs every coroutine that is ready and *)
(* time does not stop: the steps of the loop, the steps of the dispatches  *)
(* and the passing of a backoff are each taken when they stay enabled.     *)
(***************************************************************************)
RetryTasks == 1

RetryErrors == {MsgTimeout, MsgNoSpace}

RetryInit ==
    /\ tasks = <<>>
    /\ nextId = 1
    /\ now = StartTime
    /\ ticks = 0
    /\ file = FreshState(StartTime)
    /\ mem = [d \in Daemons |-> NoState]
    /\ pc = [d \in Daemons |-> "off"]
    /\ running = [d \in Daemons |-> TRUE]
    /\ starts = [d \in Daemons |-> 0]
    /\ row = [d \in Daemons |-> 0]
    /\ disp = [d \in Daemons |-> [k \in Slots |-> NoDisp]]
    /\ nclaims = [i \in 1..RetryTasks |-> 0]
    /\ faildelay = <<>>
    /\ lcall = [p \in Daemons |-> NoCall]
    /\ txn = NoTxn

RetryAdd(model_pref) ==
    /\ nextId <= RetryTasks
    /\ PoolAdd(model_pref)

BackingOff(T, t) == {i \in DOMAIN T : T[i].status = "PENDING" /\ T[i].execute_after > t}

Elapse ==
    /\ BackingOff(tasks, now) # {}
    /\ \E i \in BackingOff(tasks, now) :
          /\ \A j \in BackingOff(tasks, now) : tasks[i].execute_after <= tasks[j].execute_after
          /\ now' = tasks[i].execute_after
    /\ UNCHANGED <<starts, tasks, nextId, ticks, file, mem, pc, running, row, disp, nclaims, faildelay, lcall, txn>>

RetryLoop ==
    \/ ClaimNone(1)
    \/ ClaimSelect(1)
    \/ ClaimUpdate(1)
    \/ Wake(1)

RetryDispatch ==
    \/ \E k \in Slots : DAcquire(1, k)
    \/ \E k \in Slots, msg \in RetryErrors : DHandlerRaise(1, k, msg)
    \/ \E k \in Slots : DExceptFailSelect(1, k)
    \/ \E k \in Slots : DFailUpdate(1, k)

RetryNext ==
    \/ \E m \in ModelPrefs : RetryAdd(m)
    \/ Start(1)
    \/ Elapse
    \/ RetryLoop
    \/ RetryDispatch

RetrySpec ==
    RetryInit /\ [][RetryNext]_vars /\ WF_vars(RetryLoop) /\ WF_vars(RetryDispatch) /\ WF_vars(Elapse)

(***************************************************************************)
(* The limiter with the write of the state file in its two steps and with  *)
(* the process being killed and started again.  _save_state opens the file *)
(* with mode 'w', which truncates it, and the JSON text reaches the file   *)
(* when the with-block closes it.  A truncated file has no date: json.load *)
(* raises JSONDecodeError and _load_state resets the state, which          *)
(* LoadState yields because -1 is the date of no day.                      *)
(***************************************************************************)
TornFile == [FreshState(StartTime) EXCEPT !.date = -1]

LimRecordOpen(p) ==
    /\ lcall[p].op = "acquire"
    /\ lcall[p].account # 0
    /\ mem' = [mem EXCEPT ![p] = RecordUsage(mem[p], lcall[p].account, lcall[p].model_pref, now)]
    /\ file' = TornFile
    /\ lcall' = [lcall EXCEPT ![p].op = "saving"]
    /\ UNCHANGED <<now, ticks>>
    /\ LimVarsIdle

LimRecordClose(p) ==
    /\ lcall[p].op = "saving"
    /\ file' = mem[p]
    /\ lcall' = [lcall EXCEPT ![p].op = "record"]
    /\ UNCHANGED <<now, ticks, mem>>
    /\ LimVarsIdle

LimCrash(p) ==
    /\ lcall[p].op # "down"
    /\ mem' = [mem EXCEPT ![p] = NoState]
    /\ lcall' = [lcall EXCEPT ![p] = [NoCall EXCEPT !.op = "down"]]
    /\ UNCHANGED <<now, ticks, file>>
    /\ LimVarsIdle

LimRestart(p) ==
    /\ lcall[p].op = "down"
    /\ LET S == LoadState(file, now)
       IN  /\ file' = S
           /\ mem' = [mem EXCEPT ![p] = S]
    /\ lcall' = [lcall EXCEPT ![p] = NoCall]
    /\ UNCHANGED <<now, ticks>>
    /\ LimVarsIdle

LimIdle(p) == lcall[p].op \notin {"down", "saving"}

LimCrashNext ==
    \/ \E delta \in LimTickSteps : LimTick(delta)
    \/ \E m \in ModelPrefs : LimIdle(1) /\ LimAcquire(1, m)
    \/ LimRecordOpen(1)
    \/ LimRecordClose(1)
    \/ LimIdle(1) /\ LimReport(1)
    \/ LimCrash(1)
    \/ LimRestart(1)

LimCrashSpec == LimInit /\ [][LimCrashNext]_vars

(***************************************************************************)
(* Properties.                                                             *)
(***************************************************************************)

\* C1: no task is returned by two claim_task calls (of any processes) without
\* having been set back to PENDING in between.
NoDoubleClaim == \A i \in 1..MaxTasks : nclaims[i] <= 1

\* C2: a claim_task call returns, among the tasks that are PENDING with
\* execute_after <= now, one with the smallest priority and, among those of
\* equal priority, the smallest created_at.
ClaimOrder ==
    [][\A i \in DOMAIN tasks :
          (tasks[i].status = "PENDING" /\ tasks'[i].status = "PROCESSING") =>
             \A j \in DOMAIN tasks :
                (tasks[j].status = "PENDING" /\ tasks[j].execute_after <= now) =>
                   \/ tasks[i].priority < tasks[j].priority
                   \/ tasks[i].priority = tasks[j].priority /\ tasks[i].created_at <= tasks[j].created_at]_vars

\* Tasks added with priorities [50, 10, 10] at times t0 < t1 < t2, the second
\* claimed and the other two still waiting.
ClaimOrderWitness ==
    /\ DOMAIN tasks = 1..3
    /\ tasks[1].priority = 50 /\ tasks[2].priority = 10 /\ tasks[3].priority = 10
    /\ tasks[1].created_at < tasks[2].created_at /\ tasks[2].created_at < tasks[3].created_at
    /\ tasks[2].status = "PROCESSING"
    /\ tasks[1].status = "PENDING" /\ tasks[1].execute_after <= now
    /\ tasks[3].status = "PENDING" /\ tasks[3].execute_after <= now

\* C3: whenever a claim_task call returns a task (its UPDATE sets the row to
\* PROCESSING), that row is PENDING with execute_after <= now at that moment.
ClaimOnlyEligible ==
    [][\A d \in Daemons :
          (pc[d] = "claim_upd" /\ pc'[d] = "sleep") =>
             (tasks[row[d]].status = "PENDING" /\ tasks[row[d]].execute_after <= now)]_vars

\* C4: a task that is COMPLETED or DEAD_LETTER keeps that status in every step.
TerminalStable ==
    [][\A i \in DOMAIN tasks :
          tasks[i].status \in {"COMPLETED", "DEAD_LETTER"} => tasks'[i].status = tasks[i].status]_vars

\* C5: the only status changes are PENDING -> PROCESSING (by the UPDATE of a
\* claim_task) and PROCESSING -> COMPLETED, PENDING or DEAD_LETTER.
LifecycleTransitions ==
    [][\A i \in DOMAIN tasks :
          /\ tasks'[i].status \in TaskStatus
          /\ tasks'[i].status # tasks[i].status =>
                \/ /\ tasks[i].status = "PENDING" /\ tasks'[i].status = "PROCESSING"
                   /\ \E d \in Daemons : pc[d] = "claim_upd" /\ row[d] = i /\ pc'[d] = "sleep"
                \/ /\ tasks[i].status = "PROCESSING"
                   /\ tasks'[i].status \in {"COMPLETED", "PENDING", "DEAD_LETTER"}]_vars

\* C6: when a daemon has been (re)started and has run its recovery sweep, no
\* task is left PROCESSING without a dispatch working on it.
Orphaned(T, D, i) == T[i].status = "PROCESSING" /\ \A d \in Daemons, k \in Slots : D[d][k].task # i

RecoveredAfterRestart ==
    [][\A d \in Daemons :
          (pc[d] = "off" /\ pc'[d] = "loop") =>
             \A i \in DOMAIN tasks : ~Orphaned(tasks', disp', i)]_vars

\* C7: fail_task(id, msg, max_attempts) on a row with attempts a: if
\* a >= max_attempts the status becomes DEAD_LETTER, otherwise the status
\* becomes PENDING, attempts a + 1 and execute_after now + 5 * 2^a seconds;
\* error_message becomes msg either way; an unknown id changes no row.
FailSemantics ==
    [][\A id \in 1..(StoreTasks + 1), msg \in StoreErrors :
          StoreFail(id, msg, MaxAttempts) =>
             IF id \in DOMAIN tasks
             THEN /\ tasks'[id].error_message = <<msg>>
                  /\ IF tasks[id].attempts >= 3
                     THEN tasks'[id].status = "DEAD_LETTER"
                     ELSE /\ tasks'[id].status = "PENDING"
                          /\ tasks'[id].attempts = tasks[id].attempts + 1
                          /\ tasks'[id].execute_after = now + 5 * Pow2(tasks[id].attempts) * Sec
             ELSE tasks' = tasks]_vars

\* A task dead-lettered by its fourth failure, carrying the last message.
FailSemanticsWitness ==
    \E i \in DOMAIN tasks :
       /\ tasks[i].status = "DEAD_LETTER"
       /\ tasks[i].attempts = MaxAttempts + 1
       /\ tasks[i].error_message = <<MsgTimeout>>

\* C8: every fail_task call that re-queues a task applies a delay strictly
\* larger than the previous re-queuing fail_task call on that task; the call
\* made when attempts has reached max_attempts dead-letters the task, and
\* fail_task calls on a dead-lettered task leave execute_after unchanged.
BackoffMonotone ==
    [][\A id \in DOMAIN tasks, msg \in StoreErrors :
          StoreFail(id, msg, MaxAttempts) =>
             /\ tasks[id].attempts < MaxAttempts =>
                   tasks'[id].execute_after - now > faildelay[id]
             /\ tasks[id].attempts >= MaxAttempts => tasks'[id].status = "DEAD_LETTER"
             /\ tasks[id].status = "DEAD_LETTER" =>
                   /\ tasks'[id].status = "DEAD_LETTER"
                   /\ tasks'[id].execute_after = tasks[id].execute_after]_vars

\* A task re-queued three times with delays 5 s, 10 s, 20 s and dead-lettered
\* by a further failure, then failed once more.
BackoffMonotoneWitness ==
    \E i \in DOMAIN tasks :
       /\ faildelay[i] = 20 * Sec
       /\ tasks[i].status = "DEAD_LETTER"
       /\ tasks[i].attempts = MaxAttempts + 2

\* C9: a dispatch whose handler failed with a text containing "429" or, in
\* any letter case, "exhausted" releases its task: status PENDING,
\* execute_after = now + 60 s, every other column (attempts, error_message)
\* unchanged; with any other text it applies fail_task, which increments
\* attempts and stores the text.
CapacityTexts == {Msg429, MsgExhausted}

CapacityVsAttempts ==
    [][\A d \in Daemons, k \in Slots :
          (disp'[d][k] # disp[d][k] /\ pc'[d] # "off") =>
             /\ (disp[d][k].pc = "except" /\ disp[d][k].err[1] \in CapacityTexts) =>
                   /\ disp'[d][k] = NoDisp
                   /\ tasks' = [tasks EXCEPT ![disp[d][k].task] =
                                   [@ EXCEPT !.status = "PENDING", !.execute_after = now + 60 * Sec]]
             /\ (disp[d][k].pc = "except" /\ disp[d][k].err[1] \notin CapacityTexts) =>
                   /\ disp'[d][k].pc = "fail_upd"
                   /\ tasks' = tasks
             /\ disp[d][k].pc = "fail_upd" =>
                   /\ disp[d][k].err[1] \notin CapacityTexts
                   /\ tasks'[disp[d][k].task].attempts = tasks[disp[d][k].task].attempts + 1
                   /\ tasks'[disp[d][k].task].error_message = disp[d][k].err]_vars

\* A task released after a capacity failure of its first dispatch.
CapacityVsAttemptsWitness ==
    \E i \in DOMAIN tasks :
       /\ tasks[i].status = "PENDING"
       /\ tasks[i].execute_after = now + CapacityCooldown * Sec
       /\ tasks[i].attempts = 0
       /\ tasks[i].error_message = NULL

\* C10: a dispatch that got no account never reaches a handler and records
\* no usage; its next step releases its task with delay
\* max(10 s, get_wait_time): status PENDING, execute_after >= now + 10 s,
\* attempts unchanged.
NoCapacityRequeue ==
    [][\A d \in Daemons, k \in Slots :
          /\ disp[d][k].pc \in {"handler", "record", "except", "fail_upd"} => disp[d][k].account # 0
          /\ (disp[d][k].pc = "start" /\ disp'[d][k] # disp[d][k] /\ pc'[d] # "off"
                 /\ Available(LoadState(file, now), GetTier(disp[d][k].model_pref), now) = {}) =>
                disp'[d][k].pc = "nowait"
          /\ (disp[d][k].pc = "nowait" /\ disp'[d][k] # disp[d][k] /\ pc'[d] # "off") =>
                /\ disp[d][k].account = 0
                /\ disp'[d][k] = NoDisp
                /\ file' = LoadState(file, now)
                /\ tasks'[disp[d][k].task].status = "PENDING"
                /\ tasks'[disp[d][k].task].execute_after >= now + 10 * Sec
                /\ tasks'[disp[d][k].task].execute_after =
                      now + Max(10 * Sec, GetWaitTime(LoadState(file, now), disp[d][k].model_pref, now))
                /\ tasks'[disp[d][k].task].attempts = tasks[disp[d][k].task].attempts]_vars

\* A task re-queued for 10 s because no account was available.
NoCapacityRequeueWitness ==
    \E i \in DOMAIN tasks :
       /\ tasks[i].status = "PENDING"
       /\ tasks[i].execute_after = now + MinRequeueDelay * Sec
       /\ tasks[i].attempts = 0
       /\ \A a \in Accounts : ~DailyGateOpen(file, "flash-lite", a)

(***************************************************************************)
(* The two gates as the specification words them, on a limiter state F:   *)
(* the quota gate with floor(daily * 0.9), the gap gate with               *)
(* 60 / (rpm * 0.9) seconds, compared without rounding: a whole number of  *)
(* clock units is at least the gap exactly when it is at least the gap     *)
(* rounded up.                                                             *)
(***************************************************************************)
GapUnits(tier) ==
    (60 * 10 * Sec + ModelLimits[tier].rpm * 9 - 1) \div (ModelLimits[tier].rpm * 9)

QuotaGate(F, tier, a) ==
    ModelLimits[tier].daily = -1 \/ F.usage[a][tier] < (ModelLimits[tier].daily * 9) \div 10

GapGate(F, tier, a, t) == t - F.last[a][tier] >= GapUnits(tier)

BothGates(F, tier, a, t) == QuotaGate(F, tier, a) /\ GapGate(F, tier, a, t)

\* C11: acquire_slot never returns an account whose daily_usage for the
\* resolved tier is >= floor(daily_quota * 0.9) when the quota is limited; when
\* the quota is unlimited (-1) only the rate gate can make it return none.
DailyGate ==
    [][\A m \in LimPrefs :
          LimAcquire(1, m) =>
             LET tier == GetTier(m)
                 a == lcall'[1].account
             IN  /\ (a # 0 /\ ModelLimits[tier].daily # -1) =>
                       file'.usage[a][tier] < (ModelLimits[tier].daily * 9) \div 10
                 /\ (a = 0 /\ ModelLimits[tier].daily = -1) =>
                       \A b \in Accounts : ~GapGate(file', tier, b, now)]_vars

\* Account 1 reached the effective limit by a record_usage of this run, is
\* first in the least-recently-used order with its rate gate open, and
\* acquire_slot skipped it and returned account 2.
DailyGateWitness ==
    /\ lcall[1].op = "acquire"
    /\ lcall[1].model_pref = "flash-lite"
    /\ lcall[1].account = 2
    /\ file.usage[1]["flash-lite"] = (ModelLimits["flash-lite"].daily * 9) \div 10
    /\ file.last[1]["flash-lite"] > 0
    /\ file.last[1]["flash-lite"] = file.last[2]["flash-lite"]
    /\ GapGate(file, "flash-lite", 1, now)

WaitTimeExact ==
    [][\A m \in LimPrefs :
          LimWait(1, m) =>
             LET tier == GetTier(m)
                 w == lcall'[1].wait
                 open == {a \in Accounts : QuotaGate(file', tier, a)}
             IN  /\ (w = 0) <=> (\E a \in Accounts : BothGates(file', tier, a, now))
                 /\ (open = {}) => (w = FallbackWait * Sec)
                 /\ (w # 0 /\ open # {}) =>
                       /\ \E a \in open :
                             /\ ~GapGate(file', tier, a, now)
                             /\ (w + now - file'.last[a][tier]) * ModelLimits[tier].rpm * 9 = 60 * 10 * Sec
                       /\ \A a \in open :
                             /\ ~GapGate(file', tier, a, now)
                             /\ (w + now - file'.last[a][tier]) * ModelLimits[tier].rpm * 9 <= 60 * 10 * Sec]_vars

UsageCounted ==
    [][\A p \in Daemons :
          (LimRecord(p) /\ file.date = Today(now)) =>
             LET a == lcall[p].account
                 tier == GetTier(lcall[p].model_pref)
             IN  file'.usage = [file.usage EXCEPT ![a][tier] = @ + 1]]_vars

\* C17: the persisted daily_usage counters never decrease within a day, over
\* acquire, record and reporting calls, restarts and crashes (a crash while
\* the file is being written included); the persisted state is reset only
\* when the date of the file is another day, once per rollover.
UsageDurable ==
    [][/\ (file.date >= 0 /\ file'.date = file.date) =>
             \A a \in Accounts, tier \in Tiers : file'.usage[a][tier] >= file.usage[a][tier]
       /\ (file' # file /\ file' = FreshState(now)) =>
             (file.date >= 0 /\ file.date # Today(now))]_vars

(***************************************************************************)
(* The dispatches of daemon 1 that hold an account for a handler, and the  *)
(* number of dispatches in flight.                                         *)
(***************************************************************************)
Holding == {k \in Slots : disp[1][k].pc # "none" /\ disp[1][k].account # 0}

InFlight == Cardinality({k \in Slots : disp[1][k].pc # "none"})

\* C13: in the running daemon two dispatches that use the same account for
\* the same tier never start less than 60 / (rpm * 0.9) seconds apart, also
\* when several dispatches are in flight.
NoBursts ==
    \A k \in Holding, j \in Holding :
        (/\ k # j
         /\ disp[1][k].account = disp[1][j].account
         /\ GetTier(disp[1][k].model_pref) = GetTier(disp[1][j].model_pref)
         /\ disp[1][k].at >= disp[1][j].at)
        => disp[1][k].at - disp[1][j].at >= GapUnits(GetTier(disp[1][k].model_pref))

Waiting == {i \in DOMAIN tasks : tasks[i].status = "PENDING" /\ tasks[i].execute_after <= now}

\* C14: the number of dispatches in flight never exceeds max_concurrent; the
\* loop issues no claim_task while max_concurrent dispatches are in flight;
\* and it claims again as soon as fewer are in flight and a task is waiting.
BoundedConcurrency ==
    /\ [](InFlight <= MaxConcurrent)
    /\ [][(\/ pc[1] # "claim_upd" /\ pc'[1] = "claim_upd"
           \/ \E i \in DOMAIN tasks : tasks[i].status # "PROCESSING" /\ tasks'[i].status = "PROCESSING")
          => InFlight < MaxConcurrent]_vars
    /\ []((/\ pc[1] = "loop"
           /\ running[1]
           /\ CanRun(1)
           /\ InFlight < MaxConcurrent
           /\ Waiting # {})
          => ENABLED ClaimSelect(1))

\* max_concurrent dispatches are in flight, the loop is at the top of its
\* while and a task is waiting in the queue, which the loop does not claim.
BoundedConcurrencyWitness ==
    /\ InFlight = MaxConcurrent
    /\ pc[1] = "loop"
    /\ running[1]
    /\ CanRun(1)
    /\ Waiting # {}
    /\ ~ENABLED ClaimSelect(1)

\* C15: once the loop has seen running = false it issues no further
\* claim_task; run() returns only when no dispatch is in flight; and after
\* the signal run() eventually returns, given that every handler in flight
\* returns.
CooperativeShutdown ==
    /\ [][(pc[1] = "drain" \/ (pc[1] = "loop" /\ ~running[1]))
          => /\ pc'[1] # "claim_upd"
             /\ \A i \in DOMAIN tasks : tasks[i].status # "PROCESSING" => tasks'[i].status # "PROCESSING"]_vars
    /\ [][(pc[1] # "off" /\ pc'[1] = "off") => InFlight = 0]_vars
    /\ ((~running[1] /\ pc[1] # "off") ~> pc[1] = "off")

\* The loop has left its while after the signal, a dispatch is still in
\* flight and a task is waiting in the queue.
CooperativeShutdownWitness ==
    /\ pc[1] = "drain"
    /\ ~running[1]
    /\ InFlight > 0
    /\ Waiting # {}

CompletedOn(a) == {i \in DOMAIN tasks : tasks[i].status = "COMPLETED" /\ tasks[i].result = Some(a)}

Recording(a) == {k \in Slots : disp[1][k].pc = "record" /\ disp[1][k].account = a}

QuotaRollover ==
    [][\A m \in LimPrefs :
          (LimAcquire(1, m) /\ file.date # Today(now)) =>
             /\ file'.date = Today(now)
             /\ \A a \in Accounts, tier \in Tiers : file'.usage[a][tier] = 0
             /\ lcall'[1].account # 0
             /\ QuotaGate(file', GetTier(m), lcall'[1].account)]_vars

\* A day after the state was written, with non-zero usage on every account
\* (at or next to the effective limit), acquire_slot has reset the counters
\* and returned account 1.
QuotaRolloverWitness ==
    /\ lcall[1].op = "acquire"
    /\ lcall[1].model_pref = "flash-lite"
    /\ lcall[1].account = 1
    /\ Today(now) = Today(StartTime) + 1
    /\ file.date = Today(now)
    /\ \A a \in Accounts : file.usage[a]["flash-lite"] = 0
    /\ \A a \in Accounts : file.last[a]["flash-lite"] = 0

\* The rows other than id are the same before and after the step.
OtherRowsSame(id) ==
    /\ DOMAIN tasks' = DOMAIN tasks
    /\ \A j \in DOMAIN tasks \ {id} : tasks'[j] = tasks[j]

\* C22: release_task(id, delay) on a PROCESSING task makes it PENDING with
\* execute_after = now + delay, leaves its attempts, error_message, result,
\* priority, model_pref, payload and created_at as they were, and leaves
\* every other task unchanged.
ReleaseSemantics ==
    [][\A id \in DOMAIN tasks :
          (tasks[id].status = "PROCESSING" /\ StoreRelease(id, MinRequeueDelay * Sec)) =>
             /\ tasks'[id].status = "PENDING"
             /\ tasks'[id].execute_after = now + MinRequeueDelay * Sec
             /\ tasks'[id].attempts = tasks[id].attempts
             /\ tasks'[id].error_message = tasks[id].error_message
             /\ tasks'[id].result = tasks[id].result
             /\ tasks'[id].priority = tasks[id].priority
             /\ tasks'[id].model_pref = tasks[id].model_pref
             /\ tasks'[id].payload = tasks[id].payload
             /\ tasks'[id].created_at = tasks[id].created_at
             /\ OtherRowsSame(id)]_vars

\* A task that the sweep had given attempts = 1 was claimed again and
\* released: it is PENDING, due in ten seconds, still with attempts = 1,
\* while another task is PROCESSING.
ReleaseSemanticsWitness ==
    \E i, j \in DOMAIN tasks :
       /\ i # j
       /\ tasks[i].status = "PENDING"
       /\ tasks[i].execute_after = now + MinRequeueDelay * Sec
       /\ tasks[i].attempts = 1
       /\ tasks[j].status = "PROCESSING"

CompleteSemantics ==
    [][\A id \in 1..(FrameTasks + 1), r \in FrameResults :
          StoreComplete(id, r) =>
             /\ OtherRowsSame(id)
             /\ id \in DOMAIN tasks =>
                   tasks'[id] = [tasks[id] EXCEPT !.status = "COMPLETED", !.result = Some(r)]
             /\ id \notin DOMAIN tasks => tasks' = tasks
             /\ CompleteUpdate(tasks', id, r) = tasks']_vars

\* One task was completed with result 2 and kept its attempts = 0 and empty
\* error_message; completing it again with result 2 gives the same store;
\* another task is in the dead-letter state with the error of its failure.
CompleteSemanticsWitness ==
    \E i, j \in DOMAIN tasks :
       /\ tasks[i].status = "COMPLETED"
       /\ tasks[i].result = Some(2)
       /\ tasks[i].attempts = 0
       /\ tasks[i].error_message = NULL
       /\ CompleteUpdate(tasks, i, 2) = tasks
       /\ CompleteUpdate(tasks, FrameTasks + 1, 2) = tasks
       /\ tasks[j].status = "DEAD_LETTER"
       /\ tasks[j].error_message = Some(MsgTimeout)

\* C26: a task leaves the store only in a clear_completed step, and only if
\* it is COMPLETED and older than the threshold; a DEAD_LETTER task is never
\* removed; a task becomes DEAD_LETTER only in a fail_task step, which
\* writes its message into error_message, and the message stays while the
\* task is DEAD_LETTER.
NothingDropped ==
    /\ [][\A i \in DOMAIN tasks :
             i \notin DOMAIN tasks' =>
                \E h \in FrameHours :
                   /\ StoreClear(h)
                   /\ tasks[i].status = "COMPLETED"
                   /\ tasks[i].created_at < now - h * 3600 * Sec]_vars
    /\ [][\A i \in DOMAIN tasks :
             tasks[i].status = "DEAD_LETTER" =>
                /\ i \in DOMAIN tasks'
                /\ tasks'[i].status = "DEAD_LETTER" => tasks'[i].error_message = tasks[i].error_message]_vars
    /\ [][\A i \in DOMAIN tasks' :
             (tasks'[i].status = "DEAD_LETTER" /\ (i \in DOMAIN tasks => tasks[i].status # "DEAD_LETTER")) =>
                \E msg \in PurgeErrors :
                   /\ StoreFail(i, msg, 1)
                   /\ tasks'[i].error_message = Some(msg)]_vars
    /\ [](\A i \in DOMAIN tasks : tasks[i].status = "DEAD_LETTER" => tasks[i].error_message # NULL)

\* The retention sweep has removed the first task, and a dead-lettered task
\* as old as the removed one is still stored with the message of its
\* failure.
NothingDroppedWitness ==
    /\ nextId = 3
    /\ DOMAIN tasks = {2}
    /\ tasks[2].status = "DEAD_LETTER"
    /\ tasks[2].error_message = Some(Msg429)
    /\ tasks[2].created_at = StartTime
    /\ now > StartTime

\* C29: add_task adds exactly one row, under an id that no row has or had,
\* with status PENDING, attempts 0 and the arguments of the call, and leaves
\* every existing row as it was; in no step does a stored row change its
\* priority, model_pref, payload or created_at (its id is the key it is
\* stored under); result changes only in a complete_task step on that row.
CreationImmutable ==
    /\ [][\A m \in ModelPrefs :
             StoreAdd(DefaultPriority, m, 0, FrameTasks) =>
                \E id \in DOMAIN tasks' \ DOMAIN tasks :
                   /\ DOMAIN tasks' = DOMAIN tasks \cup {id}
                   /\ id >= nextId
                   /\ tasks'[id].status = "PENDING"
                   /\ tasks'[id].attempts = 0
                   /\ tasks'[id].priority = DefaultPriority
                   /\ tasks'[id].model_pref = m
                   /\ tasks'[id].payload = Payload
                   /\ tasks'[id].created_at = now
                   /\ tasks'[id].result = NULL
                   /\ \A j \in DOMAIN tasks : tasks'[j] = tasks[j]]_vars
    /\ [][\A i \in DOMAIN tasks \cap DOMAIN tasks' :
             /\ tasks'[i].priority = tasks[i].priority
             /\ tasks'[i].model_pref = tasks[i].model_pref
             /\ tasks'[i].payload = tasks[i].payload
             /\ tasks'[i].created_at = tasks[i].created_at]_vars
    /\ [][\A i \in DOMAIN tasks \cap DOMAIN tasks' :
             tasks'[i].result # tasks[i].result =>
                \E r \in FrameResults : StoreComplete(i, r) /\ tasks'[i].result = Some(r)]_vars
    /\ [](\A i \in DOMAIN tasks : i < nextId)

\* A second task was added after the clock moved on: it is PENDING with
\* attempts 0 and the later creation time, and the first task, which has
\* failed twice and is in the dead-letter state, still has its creation
\* time.
CreationImmutableWitness ==
    /\ DOMAIN tasks = {1, 2}
    /\ tasks[1].created_at = StartTime
    /\ tasks[1].status = "DEAD_LETTER"
    /\ tasks[1].attempts = 2
    /\ tasks[1].error_message = Some(MsgTimeout)
    /\ tasks[2].created_at = now
    /\ now > StartTime
    /\ tasks[2].status = "PENDING"
    /\ tasks[2].attempts = 0
    /\ tasks[2].result = NULL

\* A write of the limiter's state file has failed in the first run of the
\* daemon: a dispatch holds the error, or a task has it as error_message.
PersistenceFailed ==
    /\ starts[1] = 1
    /\ pc[1] # "off"
    /\ \/ \E k \in Slots : disp[1][k].err = Some(MsgNoSpace)
       \/ \E i \in DOMAIN tasks : tasks[i].error_message = Some(MsgNoSpace)

\* C25: once the persistence of the store or of the limiter has failed in a
\* run of the daemon, that run claims no further task.
PersistenceFatal ==
    [][PersistenceFailed => ~(ClaimSelect(1) \/ ClaimUpdate(1))]_vars

\* Task i can be claimed now.
Claimable(i) ==
    /\ i \in DOMAIN tasks
    /\ tasks[i].status = "PENDING"
    /\ tasks[i].execute_after <= now

\* C24: a dispatch whose handler raised (or whose default executor reported
\* a failure) ends by releasing its task for 60 s when the message is a
\* capacity message and by failing it with the message otherwise, touching
\* no other task; neither the raise nor the end of the dispatch changes the
\* position of the scheduler loop or its running flag; the loop never stops
\* on its own, and every task that can be claimed is claimed.
HandlerContained ==
    /\ [][\A k \in Slots :
             (disp[1][k].err # NULL /\ disp'[1][k] = NoDisp) =>
                /\ IF disp[1][k].err[1] \in CapacityTexts
                   THEN tasks'[disp[1][k].task] =
                           [tasks[disp[1][k].task] EXCEPT !.status = "PENDING",
                                                          !.execute_after = now + CapacityCooldown * Sec]
                   ELSE /\ tasks'[disp[1][k].task].status \in {"PENDING", "DEAD_LETTER"}
                        /\ tasks'[disp[1][k].task].attempts = tasks[disp[1][k].task].attempts + 1
                        /\ tasks'[disp[1][k].task].error_message = disp[1][k].err
                /\ OtherRowsSame(disp[1][k].task)
                /\ pc' = pc
                /\ running' = running]_vars
    /\ [][\A k \in Slots :
             (disp[1][k].err = NULL /\ disp'[1][k].err # NULL) =>
                /\ disp[1][k].pc = "handler"
                /\ disp'[1][k].pc = "except"
                /\ tasks' = tasks
                /\ pc' = pc
                /\ running' = running]_vars
    /\ [](starts[1] > 0 => pc[1] # "off" /\ running[1])
    /\ \A i \in 1..ContainTasks : (starts[1] > 0 /\ Claimable(i)) ~> ~Claimable(i)

\* One task failed with a timeout and waits for its retry, one was released
\* for 60 s after a capacity error, and the loop has claimed a third task,
\* whose dispatch is under way.
HandlerContainedWitness ==
    \E i, j, n \in DOMAIN tasks :
       /\ tasks[i].status = "PENDING"
       /\ tasks[i].error_message = Some(MsgTimeout)
       /\ tasks[i].attempts = 1
       /\ tasks[j].status = "PENDING"
       /\ tasks[j].error_message = NULL
       /\ tasks[j].execute_after = now + CapacityCooldown * Sec
       /\ tasks[n].status = "PROCESSING"
       /\ \E k \in Slots : disp[1][k].task = n /\ disp[1][k].pc = "handler"
       /\ pc[1] = "sleep"

\* Row i changes in the step as reset_stuck_tasks changes a row, and as no
\* other statement of the store does.
Swept(i) ==
    /\ tasks[i].status = "PROCESSING"
    /\ tasks'[i] = [tasks[i] EXCEPT !.status = "PENDING", !.attempts = tasks[i].attempts + 1]

\* C30: a run of the daemon begins with one reset_stuck_tasks call, made in
\* the step that takes the daemon from off to its loop and so before any
\* claim_task of the run; while the loop runs no task is swept, however
\* long it has been PROCESSING; tasks are claimed only from the loop.
StartupRecovery ==
    /\ [][(pc[1] = "off" /\ pc'[1] # "off") =>
             /\ pc'[1] = "loop"
             /\ starts'[1] = starts[1] + 1
             /\ DOMAIN tasks' = DOMAIN tasks
             /\ \A i \in DOMAIN tasks :
                   IF tasks[i].status = "PROCESSING" /\ tasks[i].created_at < now - StuckTimeout * Sec
                   THEN Swept(i)
                   ELSE tasks'[i] = tasks[i]]_vars
    /\ [][pc[1] # "off" => \A i \in DOMAIN tasks : ~Swept(i)]_vars
    /\ [][\A i \in DOMAIN tasks :
             (tasks[i].status # "PROCESSING" /\ tasks'[i].status = "PROCESSING") =>
                pc[1] = "claim_upd" /\ starts[1] > 0]_vars

\* The daemon was killed while its task was PROCESSING and started again
\* six minutes later: the second start has swept the task and the new run
\* has claimed it again, so that it is PROCESSING with attempts = 1 and no
\* error.
StartupRecoveryWitness ==
    /\ starts[1] = 2
    /\ pc[1] = "sleep"
    /\ now > StartTime + StuckTimeout * Sec
    /\ \E i \in DOMAIN tasks :
          /\ tasks[i].created_at = StartTime
          /\ tasks[i].status = "PROCESSING"
          /\ tasks[i].attempts = 1
          /\ tasks[i].error_message = NULL

\* The ids that the open add_batch call gives to its rows.
BatchIds == {nextId + k : k \in 0..(txn.size - 1)}

\* C28: while an add_batch call is under way none of its rows is in the
\* committed table, which is what claim_task and get_stats of another
\* caller read and what remains after a crash; the call ends either with
\* all its rows added in one step (one PENDING row per payload, the k-th
\* from 0 with priority base_priority + k, attempts 0, the existing rows
\* unchanged) or, when the writer is killed, with none; get_stats made
\* during the call counts the rows committed before it, and claim_task
\* never claims a row of an unfinished batch.
BatchAtomic ==
    /\ [](txn.open => BatchIds \cap DOMAIN tasks = {})
    /\ [][(txn.open /\ ~txn'.open) =>
             \/ tasks' = tasks
             \/ /\ DOMAIN tasks' = DOMAIN tasks \cup BatchIds
                /\ \A i \in DOMAIN tasks : tasks'[i] = tasks[i]
                /\ \A k \in 0..(txn.size - 1) :
                      /\ tasks'[nextId + k].status = "PENDING"
                      /\ tasks'[nextId + k].priority = txn.base + k
                      /\ tasks'[nextId + k].model_pref = txn.model_pref
                      /\ tasks'[nextId + k].payload = Payload
                      /\ tasks'[nextId + k].attempts = 0]_vars
    /\ [][(txn.open /\ txn'.open) => tasks' = tasks]_vars
    /\ [][(txn.open /\ BatchStats) => txn'.seen = PendingCount(tasks)]_vars
    /\ [][\A i \in DOMAIN tasks' :
             (tasks'[i].status = "PROCESSING" /\ (i \in DOMAIN tasks => tasks[i].status # "PROCESSING")) =>
                ~txn.open /\ i \in DOMAIN tasks]_vars

\* A batch of two with base priority 10 was committed next to a task that
\* add_task had stored before: both rows are PENDING with priorities 10 and
\* 11 and creation times a second apart, and the last get_stats call, made
\* before the commit, counted one PENDING row.
BatchAtomicWitness ==
    /\ ~txn.open
    /\ txn.seen = 1
    /\ DOMAIN tasks = {1, 2, 3}
    /\ \A i \in DOMAIN tasks : tasks[i].status = "PENDING"
    /\ tasks[1].priority = DefaultPriority
    /\ tasks[2].priority = 10
    /\ tasks[3].priority = 11
    /\ tasks[3].created_at = tasks[2].created_at + Sec

\* C31: reset_stuck_tasks(timeout) returns to PENDING only tasks that have
\* been PROCESSING for longer than timeout.  Under SweepSpec every
\* PROCESSING task was claimed at the present clock reading, so no sweep
\* returns a task to PENDING.
SweepOnlyStuck ==
    [][StoreResetStuck(StuckTimeout * Sec) =>
          \A i \in DOMAIN tasks :
             tasks[i].status = "PROCESSING" => tasks'[i].status = "PROCESSING"]_vars

\* C32: when an acquire_slot call follows a completed acquire_slot +
\* record_usage cycle of the same tier and more than one account passes
\* both gates, it does not return the account of that cycle.
RoundRobin ==
    [][\A m \in LimPrefs :
          (/\ LimAcquire(1, m)
           /\ lcall[1].op = "record"
           /\ GetTier(lcall[1].model_pref) = GetTier(m)) =>
             (Cardinality({b \in Accounts : BothGates(file', GetTier(m), b, now)}) > 1 =>
                 lcall'[1].account # lcall[1].account)]_vars

\* C33: a dispatch that has applied complete_task to its task applies
\* nothing more to it (it ends when the usage is recorded), and a dispatch
\* that ends while the daemon lives has applied complete_task, fail_task or
\* release_task in its last step or before, so that it does not leave its
\* task PROCESSING.
OneReconciliation ==
    /\ [][\A k \in Slots :
             disp[1][k].pc = "record" => disp'[1][k].pc \in {"record", "none"}]_vars
    /\ [][\A k \in Slots :
             (disp[1][k] # NoDisp /\ disp'[1][k] = NoDisp /\ pc'[1] # "off") =>
                /\ tasks'[disp[1][k].task].status # "PROCESSING"
                /\ disp[1][k].pc \in {"nowait", "except", "fail_upd"} =>
                      tasks[disp[1][k].task].status = "PROCESSING"]_vars

\* C34: in one daemon instance no two dispatches in flight have the same
\* task, and the task of a dispatch that has not yet completed, failed or
\* released it is PROCESSING.
SingleOwner ==
    /\ [](\A k1, k2 \in Slots :
             (k1 # k2 /\ disp[1][k1] # NoDisp /\ disp[1][k2] # NoDisp) =>
                disp[1][k1].task # disp[1][k2].task)
    /\ [](\A k \in Slots :
             disp[1][k].pc \in {"start", "nowait", "handler", "except", "fail_upd"} =>
                /\ disp[1][k].task \in DOMAIN tasks
                /\ tasks[disp[1][k].task].status = "PROCESSING")
    /\ [][\A k \in Slots :
             (disp[1][k].pc \in {"start", "nowait", "handler", "except", "fail_upd"} /\ pc'[1] # "off") =>
                \/ tasks'[disp[1][k].task] = tasks[disp[1][k].task]
                \/ disp'[1][k] = NoDisp
                \/ disp'[1][k].pc = "record"]_vars

\* The handler of a task runs in its only dispatch; the task failed with a
\* timeout before and was claimed again when its backoff had passed.
SingleOwnerWitness ==
    \E k \in Slots :
       /\ disp[1][k].pc = "handler"
       /\ Active(1) = {k}
       /\ tasks[disp[1][k].task].status = "PROCESSING"
       /\ tasks[disp[1][k].task].error_message = Some(MsgTimeout)
       /\ tasks[disp[1][k].task].attempts = 1
       /\ nclaims[disp[1][k].task] > 0

\* C35: with several dispatches in flight the recorded daily usage of every
\* account on every tier with a daily quota stays at or below
\* floor(daily_quota * safety_factor).
QuotaNeverOvershot ==
    \A a \in Accounts, tier \in Tiers :
       ModelLimits[tier].daily > 0 => file.usage[a][tier] <= EffectiveLimit(tier)

\* C36: when every dispatch of a task ends in a failure that is not a
\* capacity failure and the daemon keeps running with quota left, the task
\* becomes DEAD_LETTER, a DEAD_LETTER task is never changed or dispatched
\* again, and a task fails at most max_attempts + 1 times, the last of
\* which dead-letters it.
BoundedRetries ==
    /\ [](\A i \in DOMAIN tasks :
             /\ tasks[i].attempts <= MaxAttempts + 1
             /\ tasks[i].status = "DEAD_LETTER" <=> tasks[i].attempts = MaxAttempts + 1)
    /\ [](\A k \in Slots :
             disp[1][k] # NoDisp => tasks[disp[1][k].task].status = "PROCESSING")
    /\ [][\A i \in DOMAIN tasks :
             tasks[i].status = "DEAD_LETTER" => tasks'[i] = tasks[i]]_vars
    /\ \A i \in 1..RetryTasks :
          (i \in DOMAIN tasks /\ pc[1] # "off") ~>
             (i \in DOMAIN tasks /\ tasks[i].status = "DEAD_LETTER")

BoundedRetriesWitness ==
    /\ \A i \in 1..RetryTasks :
          /\ i \in DOMAIN tasks
          /\ tasks[i].status = "DEAD_LETTER"
          /\ tasks[i].attempts = MaxAttempts + 1
          /\ tasks[i].error_message = Some(MsgTimeout)
    /\ now > StartTime
    /\ Active(1) = {}

\* C37: a new task has attempts 0; attempts never decreases and changes
\* only by +1, in fail_task and reset_stuck_tasks, while claim_task and
\* complete_task leave it unchanged; every PENDING or PROCESSING task has
\* attempts <= max_attempts.
AttemptsBookkeeping ==
    /\ [][\A i \in DOMAIN tasks' :
             IF i \in DOMAIN tasks
             THEN tasks'[i].attempts \in {tasks[i].attempts, tasks[i].attempts + 1}
             ELSE tasks'[i].attempts = 0]_vars
    /\ [][(StoreClaim \/ \E id \in 1..(StoreTasks + 1) : StoreComplete(id, 1)) =>
             \A i \in DOMAIN tasks : tasks'[i].attempts = tasks[i].attempts]_vars
    /\ [](\A i \in DOMAIN tasks :
             tasks[i].status \in {"PENDING", "PROCESSING"} => tasks[i].attempts <= MaxAttempts)

====
